---- MODULE Spec2Model ----
(***************************************************************************)
(* Model of the recurring broadcast worker of xabar.py (ads_worker) and of *)
(* the store operations that run concurrently with it.                     *)
(*                                                                         *)
(* Time is counted in half seconds, so that the 0.5 s pacing sleep of the  *)
(* worker is one unit: the 8 s tick sleep is 16 units, the 15 s minimum    *)
(* interval is 30 units and a day is 172800 units.  Timestamps stored as   *)
(* ISO text are modelled by the instant they denote; NULL is the SQL NULL  *)
(* (Python None) and any other negative value is text that                 *)
(* datetime.fromisoformat rejects.  Time passes in the sleeps of the       *)
(* worker only: a store call or a send takes no time at this resolution.   *)
(***************************************************************************)
EXTENDS Integers, Sequences, FiniteSets, TLC

\* ------------------------------------------------------------------ bounds
MaxTime == 35
MaxApprovals == 1
MaxFaults == 1
MaxJobs == 2
MaxGroups == 2
MaxPayments == 2
MaxCommands == 2

\* -------------------------------------------------------- program constants
NULL == -1
PaceDelay == 1
TickSleep == 16
MinInterval == 30
DayLen == 172800
DAILY_PRICE == 1000
\* a last_sent that datetime.fromisoformat rejects
BadStamp == -2

Users == {1, 2}
\* line 28: the user id of the administrator
ADMIN_ID == 3
\* e.seconds of a FloodWaitError, in half seconds (2 s)
FloodWaits == {4}
\* days of an /approve_<user>_<days> command
DaysChoices == {1}
\* paid_until of user 1 when the process starts: expired, expiring soon, far
InitExpiries == {0, 10, DayLen}

VARIABLES
    now,        \* datetime.utcnow()
    users,      \* users.paid_until, by user_id
    messages,   \* table messages, rows in rowid order
    groups,     \* table groups, rows in rowid order
    accounts,   \* table accounts, rows in rowid order
    pc,         \* the await at which ads_worker is suspended
    ads,        \* ads_worker: the rows fetched at the start of the tick
    idx,        \* ads_worker: position in ads of the job being processed
    grp,        \* ads_worker: groups of the job being processed
    gi,         \* ads_worker: position in grp of the destination being sent to
    session,    \* ads_worker: session of the job being processed
    wait,       \* e.seconds of the FloodWaitError being slept on
    nact,       \* approvals issued so far (bounded by MaxApprovals)
    nfault,     \* store calls that raised so far (bounded by MaxFaults)
    fsm,        \* FSMContext of each user: dialog state and collected data
    flying,     \* sends started by ads_worker that have not returned yet
    tl,         \* history: what happened to each job in the current tick
    everSkip,   \* history: jobs once refused for want of a subscription
    balance,    \* users.balance, by user_id
    payments,   \* table payments, rows in rowid order
    appr,       \* admin_approve_payment handlers that have not returned yet
    cmds,       \* history: admin commands received, and who sent the last
    credit      \* history: days passed to the UPDATE of line 198, by user_id

vars == <<now, users, messages, groups, accounts, pc, ads, idx, grp, gi,
          session, wait, nact, nfault, fsm, flying, tl, everSkip,
          balance, payments, appr, cmds, credit>>

store == <<users, messages, groups, accounts>>
locals == <<ads, idx, grp, gi, session, wait>>
pay == <<balance, payments, appr, cmds, credit>>

JobIds == 1 .. Len(messages)

\* ------------------------------------------------------------------ helpers
\* datetime.fromisoformat(v) succeeds
Parsable(v) == v >= 0

\* has_active_sub with >= for >: a subscription ending now counts as active
has_active_sub_inclusive(user_id) ==
    LET row == users[user_id] IN
    IF row = NULL THEN FALSE
    ELSE IF ~Parsable(row) THEN FALSE
    ELSE row >= now

\* has_active_sub without the comparison: any stored paid_until counts
has_active_sub_unchecked(user_id) ==
    LET row == users[user_id] IN
    IF row = NULL THEN FALSE
    ELSE Parsable(row)

\* lines 154-163

has_active_sub(user_id) ==
    LET row == users[user_id] IN
    IF row = NULL THEN FALSE
    ELSE IF ~Parsable(row) THEN FALSE
    ELSE row > now

\* due_check with <= for <: a job is skipped when exactly interval has passed
due_check_strict(last_sent, interval) ==
    IF last_sent = NULL THEN TRUE
    ELSE IF ~Parsable(last_sent) THEN TRUE
    ELSE ~(now - last_sent <= interval)

\* due_check failing closed: a last_sent that cannot be parsed skips the job
due_check_fail_closed(last_sent, interval) ==
    IF last_sent = NULL THEN TRUE
    ELSE IF ~Parsable(last_sent) THEN FALSE
    ELSE ~(now - last_sent < interval)

\* due_check without the comparison: the job is never skipped
due_check_always(last_sent, interval) ==
    last_sent = NULL \/ ~Parsable(last_sent) \/ interval >= 0

\* lines 996-1002: TRUE when the job is not skipped by the time check
due_check(last_sent, interval) ==
    IF last_sent = NULL THEN TRUE
    ELSE IF ~Parsable(last_sent) THEN TRUE
    ELSE ~(now - last_sent < interval)

IsActiveGroupOf(g, user_id) == g.user_id = user_id /\ g.is_active = 1

\* get_user_groups without is_active=1: removed groups are returned too
get_user_groups_all(user_id) ==
    SelectSeq(groups, LAMBDA g : g.user_id = user_id)

get_user_groups(user_id) ==
    SelectSeq(groups, LAMBDA g : IsActiveGroupOf(g, user_id))

NoSession == 0

\* get_first_session_string without is_active=1
get_first_session_string_any(user_id) ==
    LET rows == SelectSeq(accounts, LAMBDA a : a.user_id = user_id)
    IN IF rows = <<>> THEN NoSession ELSE rows[1].session_string

get_first_session_string(user_id) ==
    LET rows == SelectSeq(accounts,
                          LAMBDA a : a.user_id = user_id /\ a.is_active = 1)
    IN IF rows = <<>> THEN NoSession ELSE rows[1].session_string

\* the row the SELECT of line 987 returns for a message
AdRow(m) ==
    [id |-> m.id, user_id |-> m.user_id, text |-> m.text,
     photo_path |-> m.photo_path, interval_sec |-> m.interval_sec,
     last_sent |-> m.last_sent]

\* select_ads without WHERE active=1
select_ads_all ==
    [i \in 1 .. Len(messages) |-> AdRow(messages[i])]

\* lines 986-989: SELECT ... FROM messages WHERE active=1
select_ads ==
    LET rows == SelectSeq(messages, LAMBDA m : m.active = 1)
    IN [i \in 1 .. Len(rows) |-> AdRow(rows[i])]

\* ------------------------------------------------------------------ history
\* For each job, what the current tick did with it and what the store held
\* at the moment of each read (read from the tables directly, not through
\* the worker's queries):
\*   out       "none" (not reached), "eval", "skip_sub", "skip_due",
\*             "skip_grp", "skip_cred", "pass" (admitted), "raised"
\*   actLoad   messages.active = 1 when the tick loaded its rows
\*   actEval   ... when the worker began to evaluate the job
\*   actStart  ... when the worker began the job's fan-out pass
\*   subT      paid_until was later than now at the subscription check
\*   dests     the owner's active group_ids when the groups were read
\*   rows      the rowids of the owner's active groups at that moment
\*   creds     the sessions of the owner's active accounts when the
\*             session was read
\*   credT     the owner had an active account when the session was read
\*   dnow      utcnow() of the time check; last0: last_sent in the store then
\*   lastLoad, cnt0   last_sent and sent_count when the tick loaded its rows
\*   books     runs of the UPDATE of line 1026 for the job in this tick
\*   att       the sends issued for the job in this tick, in order
NoLog(m) ==
    [out |-> "none", actLoad |-> (m.active = 1), actEval |-> TRUE,
     actStart |-> TRUE, subT |-> TRUE, dests |-> {}, rows |-> {},
     creds |-> {}, credT |-> TRUE,
     dnow |-> NULL, last0 |-> NULL, lastLoad |-> m.last_sent,
     cnt0 |-> m.sent_count, books |-> 0, att |-> <<>>]

FreshLog == [j \in JobIds |-> NoLog(messages[j])]

Job == ads[idx]

\* FSMContext after state.clear(): no state, no data
NoState ==
    [state |-> "none", text |-> "", photo |-> NULL, days |-> NULL,
     amount |-> NULL]

\* ---------------------------------------------------------------------- Init
Init ==
    /\ now = 0
    /\ \E e \in InitExpiries : users = (1 :> e) @@ (2 :> DayLen)
    /\ messages = <<
           [id |-> 1, user_id |-> 1, text |-> "ad1", photo_path |-> NULL,
            interval_sec |-> MinInterval,
            last_sent |-> NULL, active |-> 1, sent_count |-> 0],
           [id |-> 2, user_id |-> 2, text |-> "ad2", photo_path |-> NULL,
            interval_sec |-> MinInterval + 2,
            last_sent |-> NULL, active |-> 1, sent_count |-> 0] >>
    /\ \E g2 \in {0, 1} :
         groups = <<
           [id |-> 1, user_id |-> 1, group_id |-> "g1", is_active |-> 1],
           [id |-> 2, user_id |-> 1, group_id |-> "g2", is_active |-> 1] >>
           \o (IF g2 = 1
               THEN << [id |-> 3, user_id |-> 2, group_id |-> "g3",
                        is_active |-> 1] >>
               ELSE << >>)
    /\ accounts = <<
           [id |-> 1, user_id |-> 1, session_string |-> 1, is_active |-> 1],
           [id |-> 2, user_id |-> 2, session_string |-> 2, is_active |-> 1] >>
    /\ pc = "load"
    /\ ads = <<>>
    /\ idx = 1
    /\ grp = <<>>
    /\ gi = 1
    /\ session = NoSession
    /\ wait = 0
    /\ nact = 0
    /\ nfault = 0
    /\ fsm = [u \in Users |-> NoState]
    /\ flying = <<>>
    /\ tl = [j \in JobIds |->
                [NoLog(messages[j]) EXCEPT !.actLoad = FALSE]]
    /\ everSkip = {}
    /\ balance = [u \in Users |-> 0]
    /\ payments = <<>>
    /\ appr = <<>>
    /\ cmds = [n |-> 0, from |-> ADMIN_ID]
    /\ credit = [u \in Users |-> 0]


\* --------------------------------------------------------------- ads_worker
\* ground truth of the store, read directly, for the history variable
SubTruth(user_id) ==
    /\ users[user_id] # NULL
    /\ users[user_id] >= 0
    /\ users[user_id] > now

ActiveDests(user_id) ==
    {groups[i].group_id : i \in {k \in 1 .. Len(groups) :
        groups[k].user_id = user_id /\ groups[k].is_active = 1}}

ActiveRows(user_id) ==
    {k \in 1 .. Len(groups) :
        groups[k].user_id = user_id /\ groups[k].is_active = 1}

ActiveCreds(user_id) ==
    {accounts[i].session_string : i \in {k \in 1 .. Len(accounts) :
        accounts[k].user_id = user_id /\ accounts[k].is_active = 1}}

CredTruth(user_id) ==
    \E i \in 1 .. Len(accounts) :
        accounts[i].user_id = user_id /\ accounts[i].is_active = 1

\* `continue` that gives up the tick: the rows after the current one are
\* left for the next tick
Continue_break ==
    /\ idx' = idx + 1
    /\ pc' = "sleep"

\* `continue`: on to the next fetched row, or to the sleep of line 1032
Continue ==
    /\ idx' = idx + 1
    /\ pc' = IF idx + 1 > Len(ads) THEN "sleep" ELSE "sub"

\* the for loop of line 1013 moves to the next destination, or ends
NextDest ==
    /\ gi' = gi + 1
    /\ pc' = IF gi + 1 > Len(grp) THEN "book" ELSE "send"

\* lines 985-989
ads_worker_load ==
    /\ pc = "load"
    /\ ads' = select_ads
    /\ idx' = 1
    /\ pc' = IF select_ads = <<>> THEN "sleep" ELSE "sub"
    /\ tl' = FreshLog
    /\ UNCHANGED <<pay, now, store, grp, gi, session, wait, nact, everSkip, nfault, fsm, flying>>

\* lines 991-994
ads_worker_sub ==
    /\ pc = "sub"
    /\ LET j == Job.id
           u == Job.user_id
       IN IF has_active_sub(u)
          THEN /\ pc' = "due"
               /\ tl' = [tl EXCEPT ![j].subT = SubTruth(u),
                                   ![j].actEval = (messages[j].active = 1),
                                   ![j].out = "eval"]
               /\ UNCHANGED <<idx, everSkip, nfault>>
          ELSE /\ Continue
               /\ tl' = [tl EXCEPT ![j].subT = SubTruth(u),
                                   ![j].actEval = (messages[j].active = 1),
                                   ![j].out = "skip_sub"]
               /\ everSkip' = everSkip \cup {j}
    /\ UNCHANGED <<pay, now, store, ads, grp, gi, session, wait, nact, nfault, fsm, flying>>

\* lines 995-1002
ads_worker_due ==
    /\ pc = "due"
    /\ LET j == Job.id
           seen == [tl EXCEPT ![j].dnow = now,
                              ![j].last0 = messages[j].last_sent]
       IN IF due_check(Job.last_sent, Job.interval_sec)
          THEN /\ pc' = "groups"
               /\ tl' = seen
               /\ UNCHANGED idx
          ELSE /\ Continue
               /\ tl' = [seen EXCEPT ![j].out = "skip_due"]
    /\ UNCHANGED <<pay, now, store, ads, grp, gi, session, wait, nact,
                   everSkip, nfault, fsm, flying>>

\* lines 1004-1006
ads_worker_groups ==
    /\ pc = "groups"
    /\ LET j == Job.id
           u == Job.user_id
           seen == [tl EXCEPT ![j].dests = ActiveDests(u),
                              ![j].rows = ActiveRows(u)]
       IN /\ grp' = get_user_groups(u)
          /\ IF get_user_groups(u) = <<>>
             THEN /\ Continue
                  /\ tl' = [seen EXCEPT ![j].out = "skip_grp"]
             ELSE /\ pc' = "session"
                  /\ tl' = seen
                  /\ UNCHANGED idx
    /\ UNCHANGED <<pay, now, store, ads, gi, session, wait, nact, everSkip, nfault, fsm, flying>>

\* lines 1007-1013
ads_worker_session ==
    /\ pc = "session"
    /\ LET j == Job.id
           u == Job.user_id
           seen == [tl EXCEPT ![j].credT = CredTruth(u),
                              ![j].creds = ActiveCreds(u)]
       IN /\ session' = get_first_session_string(u)
          /\ IF get_first_session_string(u) = NoSession
             THEN /\ Continue
                  /\ tl' = [seen EXCEPT ![j].out = "skip_cred"]
                  /\ UNCHANGED gi
             ELSE /\ pc' = "send"
                  /\ gi' = 1
                  /\ tl' = [seen EXCEPT ![j].out = "pass",
                                        ![j].actStart =
                                            (messages[j].active = 1)]
                  /\ UNCHANGED idx
    /\ UNCHANGED <<pay, now, store, ads, grp, wait, nact, everSkip, nfault, fsm, flying>>

Attempt(res, w) ==
    [gi |-> gi, ref |-> grp[gi].group_id, row |-> grp[gi].id,
     cred |-> session, res |-> res, t |-> now, w |-> w]

Logged(res, w) ==
    [tl EXCEPT ![Job.id].att = Append(@, Attempt(res, w))]

\* the send the worker is making: the client of line 969 and its target
Flight == [cred |-> session, ref |-> grp[gi].group_id]

\* line 978: the client of the send that returns or raises is disconnected
Landed == SelectSeq(flying, LAMBDA f : f # Flight)

\* ads_worker_send_start without the await: the send is left running as a
\* task and the loop goes on to the next destination
ads_worker_send_start_detached ==
    /\ pc = "send"
    /\ flying' = Append(flying, Flight)
    /\ tl' = Logged("ok", 0)
    /\ NextDest
    /\ UNCHANGED <<pay, now, store, ads, idx, grp, session, wait, nact,
                   everSkip, nfault, fsm>>

\* lines 1015, 968-970: send_ad_with_session is called and awaited
ads_worker_send_start ==
    /\ pc = "send"
    /\ flying' = Append(flying, Flight)
    /\ pc' = "sending"
    /\ UNCHANGED <<pay, now, store, locals, nact, tl, everSkip, nfault, fsm>>

\* ads_worker_send_ok counting each delivery in sent_count
ads_worker_send_ok_counting ==
    /\ pc = "sending"
    /\ flying' = Landed
    /\ pc' = "pace"
    /\ tl' = Logged("ok", 0)
    /\ messages' = [messages EXCEPT ![Job.id].sent_count = @ + 1]
    /\ UNCHANGED <<pay, now, users, groups, accounts, locals, nact, everSkip,
                   nfault, fsm>>

\* lines 1015-1016: send_ad_with_session returns
ads_worker_send_ok ==
    /\ pc = "sending"
    /\ flying' = Landed
    /\ pc' = "pace"
    /\ tl' = Logged("ok", 0)
    /\ UNCHANGED <<pay, now, store, locals, nact, everSkip, nfault, fsm>>

\* lines 1015, 1017-1018: send_ad_with_session raises FloodWaitError
ads_worker_send_flood ==
    /\ pc = "sending"
    /\ flying' = Landed
    /\ \E w \in FloodWaits :
         /\ wait' = w
         /\ tl' = Logged("flood", w)
    /\ pc' = "flood"
    /\ UNCHANGED <<pay, now, store, ads, idx, grp, gi, session, nact,
                   everSkip, nfault, fsm>>

\* ads_worker_send_error without the except of line 1020: the error leaves
\* the for loops and is caught at line 1030
ads_worker_send_error_raise ==
    /\ pc = "sending"
    /\ flying' = Landed
    /\ tl' = Logged("error", 0)
    /\ pc' = "sleep"
    /\ UNCHANGED <<pay, now, store, locals, nact, everSkip, nfault, fsm>>

\* lines 1015, 1020-1021: send_ad_with_session raises any other Exception
ads_worker_send_error ==
    /\ pc = "sending"
    /\ flying' = Landed
    /\ tl' = Logged("error", 0)
    /\ NextDest
    /\ UNCHANGED <<pay, now, store, ads, idx, grp, session, wait, nact,
                   everSkip, nfault, fsm>>

\* line 1016: asyncio.sleep(0.5) returns
ads_worker_pace ==
    /\ pc = "pace"
    /\ now + PaceDelay <= MaxTime
    /\ now' = now + PaceDelay
    /\ NextDest
    /\ UNCHANGED <<pay, store, ads, idx, grp, session, wait, nact, tl,
                   everSkip, nfault, fsm, flying>>

\* ads_worker_flood_sleep going back to the same destination after the
\* sleep, as often as the send is throttled
ads_worker_flood_sleep_retry ==
    /\ pc = "flood"
    /\ now + wait <= MaxTime
    /\ now' = now + wait
    /\ wait' = 0
    /\ pc' = "send"
    /\ UNCHANGED <<pay, store, ads, idx, grp, gi, session, nact, tl, everSkip,
                   nfault, fsm, flying>>

\* ads_worker_flood_sleep waking up after the pacing delay instead of the
\* e.seconds of the error
ads_worker_flood_sleep_short ==
    /\ pc = "flood"
    /\ now + PaceDelay <= MaxTime
    /\ now' = now + PaceDelay
    /\ wait' = 0
    /\ NextDest
    /\ UNCHANGED <<pay, store, ads, idx, grp, session, nact, tl, everSkip, nfault, fsm, flying>>

\* line 1019: asyncio.sleep(e.seconds) returns
ads_worker_flood_sleep ==
    /\ pc = "flood"
    /\ now + wait <= MaxTime
    /\ now' = now + wait
    /\ wait' = 0
    /\ NextDest
    /\ UNCHANGED <<pay, store, ads, idx, grp, session, nact, tl, everSkip, nfault, fsm, flying>>

\* ads_worker_book counting one per destination instead of one per pass
ads_worker_book_per_dest ==
    /\ pc = "book"
    /\ messages' = [messages EXCEPT ![Job.id].last_sent = now,
                                    ![Job.id].sent_count = @ + Len(grp)]
    /\ tl' = [tl EXCEPT ![Job.id].books = @ + 1]
    /\ Continue
    /\ UNCHANGED <<pay, now, users, groups, accounts, ads, grp, gi, session, wait,
                   nact, everSkip, nfault, fsm, flying>>

\* ads_worker_book stamping the time of the job's time check
ads_worker_book_stamp_due ==
    /\ pc = "book"
    /\ messages' = [messages EXCEPT ![Job.id].last_sent = tl[Job.id].dnow,
                                    ![Job.id].sent_count = @ + 1]
    /\ tl' = [tl EXCEPT ![Job.id].books = @ + 1]
    /\ Continue
    /\ UNCHANGED <<pay, now, users, groups, accounts, ads, grp, gi, session, wait,
                   nact, everSkip, nfault, fsm, flying>>

\* ads_worker_book switching the job off once it has been sent
ads_worker_book_deactivate ==
    /\ pc = "book"
    /\ messages' = [messages EXCEPT ![Job.id].last_sent = now,
                                    ![Job.id].sent_count = @ + 1,
                                    ![Job.id].active = 0]
    /\ tl' = [tl EXCEPT ![Job.id].books = @ + 1]
    /\ Continue
    /\ UNCHANGED <<pay, now, users, groups, accounts, ads, grp, gi, session, wait,
                   nact, everSkip, nfault, fsm, flying>>

\* lines 1023-1029
ads_worker_book ==
    /\ pc = "book"
    /\ messages' = [messages EXCEPT ![Job.id].last_sent = now,
                                    ![Job.id].sent_count = @ + 1]
    /\ tl' = [tl EXCEPT ![Job.id].books = @ + 1]
    /\ Continue
    /\ UNCHANGED <<pay, now, users, groups, accounts, ads, grp, gi, session, wait,
                   nact, everSkip, nfault, fsm, flying>>

\* line 1032: asyncio.sleep(8) returns
ads_worker_sleep ==
    /\ pc = "sleep"
    /\ now + TickSleep <= MaxTime
    /\ now' = now + TickSleep
    /\ pc' = "load"
    /\ UNCHANGED <<pay, store, locals, nact, tl, everSkip, nfault, fsm, flying>>

\* lines 985-989, 1030-1032: the connect or the SELECT raises
ads_worker_load_error ==
    /\ pc = "load"
    /\ nfault < MaxFaults
    /\ nfault' = nfault + 1
    /\ pc' = "sleep"
    /\ ads' = <<>>
    /\ idx' = 1
    /\ tl' = FreshLog
    /\ UNCHANGED <<pay, now, store, grp, gi, session, wait, nact, everSkip, fsm, flying>>

\* ads_worker_job_error without the except of line 1030: the error ends
\* the task
ads_worker_job_error_crash ==
    /\ pc \in {"sub", "groups", "session", "book"}
    /\ nfault < MaxFaults
    /\ nfault' = nfault + 1
    /\ pc' = "done"
    /\ tl' = [tl EXCEPT ![Job.id].out = "raised"]
    /\ UNCHANGED <<pay, now, store, locals, nact, everSkip, fsm, flying>>

\* lines 993, 1004, 1007, 1024-1029, 1030-1032: a store call made for the
\* job being processed raises; the except of line 1030 is outside the for
ads_worker_job_error ==
    /\ pc \in {"sub", "groups", "session", "book"}
    /\ nfault < MaxFaults
    /\ nfault' = nfault + 1
    /\ pc' = "sleep"
    /\ tl' = [tl EXCEPT ![Job.id].out = "raised"]
    /\ UNCHANGED <<pay, now, store, locals, nact, everSkip, fsm, flying>>

\* lines 1035-1039: the process shuts down (start_polling returns and
\* asyncio.run cancels the task), so CancelledError is raised at the await
\* at which the worker is suspended; it is a BaseException, which no except
\* clause of ads_worker catches, and the finally of line 977 disconnects
ads_worker_cancel ==
    /\ pc # "done"
    /\ pc' = "done"
    /\ flying' = <<>>
    /\ UNCHANGED <<pay, now, store, locals, nact, nfault, fsm, tl, everSkip>>

\* ------------------------------------------------------ interactive handlers
\* new_until extending from the stored expiry whether it has passed or not
new_until_from_stored(row, t, days) ==
    IF row # NULL /\ Parsable(row)
    THEN row + days * DayLen
    ELSE t + days * DayLen

\* lines 184-195: the expiry that activate_subscription computes from the
\* paid_until it read (row) and utcnow() (t)
new_until(row, t, days) ==
    IF row # NULL
    THEN IF Parsable(row)
         THEN IF row > t THEN row + days * DayLen
              ELSE t + days * DayLen
         ELSE t + days * DayLen
    ELSE t + days * DayLen

\* lines 179-201, called by admin_approve_payment (line 416), when no other
\* handler runs between its SELECT and its UPDATE
activate_subscription(user_id, days) ==
    /\ nact < MaxApprovals
    /\ nact' = nact + 1
    /\ users' = [users EXCEPT ![user_id] = new_until(users[user_id], now, days)]
    /\ UNCHANGED <<pay, now, messages, groups, accounts, pc, locals, tl,
                   everSkip, nfault, fsm, flying>>

\* lines 748-758
delete_account(acc_id, user_id) ==
    /\ accounts[acc_id].is_active = 1
    /\ accounts' = [accounts EXCEPT ![acc_id].is_active =
                       IF accounts[acc_id].user_id = user_id THEN 0 ELSE @]
    /\ UNCHANGED <<pay, now, users, messages, groups, pc, locals, nact, tl,
                   everSkip, nfault, fsm, flying>>

\* the owner switches a job off (soft deactivation, active = 0)
deactivate_job(j) ==
    /\ messages[j].active = 1
    /\ messages' = [messages EXCEPT ![j].active = 0]
    /\ UNCHANGED <<pay, now, users, groups, accounts, pc, locals, nact, tl,
                   everSkip, nfault, fsm, flying>>

\* the owner switches a destination off (soft deletion, is_active = 0)
remove_group(g) ==
    /\ groups[g].is_active = 1
    /\ groups' = [groups EXCEPT ![g].is_active = 0]
    /\ UNCHANGED <<pay, now, users, messages, accounts, pc, locals, nact, tl,
                   everSkip, nfault, fsm, flying>>

\* ------------------------------------------------- message text and int()
\* A message text is a sequence of characters.
Digits == <<"0", "1", "2", "3", "4", "5", "6", "7", "8", "9">>

IsDigit(c) == \E d \in 1 .. Len(Digits) : Digits[d] = c

DigitVal(c) == (CHOOSE d \in 1 .. Len(Digits) : Digits[d] = c) - 1

\* str.strip(): the text without its leading and trailing spaces
RECURSIVE LStrip(_)
LStrip(t) ==
    IF t # <<>> /\ Head(t) = " " THEN LStrip(Tail(t)) ELSE t

RECURSIVE RStrip(_)
RStrip(t) ==
    IF t # <<>> /\ t[Len(t)] = " " THEN RStrip(SubSeq(t, 1, Len(t) - 1))
    ELSE t

Strip(t) == RStrip(LStrip(t))

\* the value of a non-empty sequence of digits
RECURSIVE DigitsVal(_)
DigitsVal(t) ==
    IF t = <<>> THEN 0
    ELSE DigitsVal(SubSeq(t, 1, Len(t) - 1)) * Len(Digits)
         + DigitVal(t[Len(t)])

\* the digits of a stripped text after its optional sign
Unsigned(t) ==
    IF t # <<>> /\ Head(t) \in {"-", "+"} THEN Tail(t) ELSE t

\* int(text) returns (otherwise it raises ValueError)
IsInt(t) ==
    /\ Unsigned(t) # <<>>
    /\ \A i \in 1 .. Len(Unsigned(t)) : IsDigit(Unsigned(t)[i])

\* int(text), for a text int() accepts
ToInt(t) ==
    IF Head(t) = "-" THEN 0 - DigitsVal(Unsigned(t))
    ELSE DigitsVal(Unsigned(t))

\* interval_sec as the model counts it, in half seconds
HalfSeconds(seconds) == seconds + seconds

\* the texts an owner sends as interval: "abc", "14", " 15 ", "16", "-20",
\* "15.5"
IntervalTexts ==
    { <<"a", "b", "c">>, <<"1", "4">>, <<" ", "1", "5", " ">>,
      <<"1", "6">>, <<"-", "2", "0">>, <<"1", "5", ".", "5">> }

\* the texts an owner sends as the text of an ad
AdTexts == {"ad"}

\* the photo files save_photo stores
PhotoPaths == {1}

\* the identifiers an owner sends as a group to add
GroupRefs == {"g8", "g9"}

\* ----------------------------------------------------- the ad dialog
\* lines 867-880; without a subscription the handler answers and returns
ads_new_start(u) ==
    /\ has_active_sub(u)
    /\ fsm' = [fsm EXCEPT ![u].state = "waiting_text"]
    /\ UNCHANGED <<pay, now, store, pc, locals, nact, nfault, flying, tl,
                   everSkip>>

\* lines 882-889
ads_text_received(u, text) ==
    /\ fsm[u].state = "waiting_text"
    /\ fsm' = [fsm EXCEPT ![u].text = text, ![u].state = "waiting_image"]
    /\ UNCHANGED <<pay, now, store, pc, locals, nact, nfault, flying, tl,
                   everSkip>>

\* lines 891-896
ads_image_received(u, file_path) ==
    /\ fsm[u].state = "waiting_image"
    /\ fsm' = [fsm EXCEPT ![u].photo = file_path,
                           ![u].state = "waiting_interval"]
    /\ UNCHANGED <<pay, now, store, pc, locals, nact, nfault, flying, tl,
                   everSkip>>

\* lines 898-902
ads_skip_image(u) ==
    /\ fsm[u].state = "waiting_image"
    /\ fsm' = [fsm EXCEPT ![u].photo = NULL,
                           ![u].state = "waiting_interval"]
    /\ UNCHANGED <<pay, now, store, pc, locals, nact, nfault, flying, tl,
                   everSkip>>

\* the row the INSERT of line 921 adds: rowid next, the columns given and
\* the defaults of the table for the others
NewAd(u, interval) ==
    [id |-> Len(messages) + 1, user_id |-> u, text |-> fsm[u].text,
     photo_path |-> fsm[u].photo, interval_sec |-> HalfSeconds(interval),
     last_sent |-> NULL, active |-> 1, sent_count |-> 0]

\* the history of the current tick, with a row the tick did not load
WithNewAd(row) ==
    [j \in 1 .. Len(messages) + 1 |->
        IF j <= Len(messages) THEN tl[j]
        ELSE [NoLog(row) EXCEPT !.actLoad = FALSE]]

\* the INSERT of lines 919-924 and what follows it
InsertAd(u, interval) ==
    /\ messages' = Append(messages, NewAd(u, interval))
    /\ tl' = WithNewAd(NewAd(u, interval))
    /\ fsm' = [fsm EXCEPT ![u] = NoState]

\* ads_interval_received without the test of line 908
ads_interval_received_unchecked(u, text) ==
    /\ fsm[u].state = "waiting_interval"
    /\ Len(messages) < MaxJobs
    /\ IF IsInt(Strip(text))
       THEN InsertAd(u, ToInt(Strip(text)))
       ELSE UNCHANGED <<messages, tl, fsm>>
    /\ UNCHANGED <<pay, now, users, groups, accounts, pc, locals, nact, nfault,
                   flying, everSkip>>

\* lines 904-931
ads_interval_received(u, text) ==
    /\ fsm[u].state = "waiting_interval"
    /\ Len(messages) < MaxJobs
    /\ IF IsInt(Strip(text))
       THEN IF HalfSeconds(ToInt(Strip(text))) < MinInterval
            THEN UNCHANGED <<messages, tl, fsm>>
            ELSE InsertAd(u, ToInt(Strip(text)))
       ELSE UNCHANGED <<messages, tl, fsm>>
    /\ UNCHANGED <<pay, now, users, groups, accounts, pc, locals, nact, nfault,
                   flying, everSkip>>

\* lines 961-965
back_to_home(u) ==
    /\ fsm[u].state # "none"
    /\ fsm' = [fsm EXCEPT ![u] = NoState]
    /\ UNCHANGED <<pay, now, store, pc, locals, nact, nfault, flying, tl,
                   everSkip>>

\* ----------------------------------------------------- the group dialog
\* lines 203-209
get_user_accounts(user_id) ==
    SelectSeq(accounts, LAMBDA a : a.user_id = user_id /\ a.is_active = 1)

\* lines 781-805; without an account the handler answers and returns
group_add_start(u) ==
    /\ get_user_accounts(u) # <<>>
    /\ fsm' = [fsm EXCEPT ![u].state = "waiting_group_pair"]
    /\ UNCHANGED <<pay, now, store, pc, locals, nact, nfault, flying, tl,
                   everSkip>>

\* lines 807-841; found: client.get_entity resolves the identifier
group_id_received(u, group_identifier, found) ==
    /\ fsm[u].state = "waiting_group_pair"
    /\ Len(groups) < MaxGroups
    /\ fsm' = [fsm EXCEPT ![u] = NoState]
    /\ IF get_first_session_string(u) # NoSession /\ found
       THEN groups' = Append(groups,
                [id |-> Len(groups) + 1, user_id |-> u,
                 group_id |-> group_identifier, is_active |-> 1])
       ELSE UNCHANGED groups
    /\ UNCHANGED <<pay, now, users, messages, accounts, pc, locals, nact, nfault,
                   flying, tl, everSkip>>

\* ---------------------------------------------- payments and admin commands
\* who may send a command message to the bot
Senders == Users \cup {ADMIN_ID}

\* lines 281-283: subscription lengths offered by payment_days_kb, which
\* the notification of line 386 puts in the /approve_ command
PayDays == {1, 7}

\* line 281: the length that the users pick in the payment dialog
ChequeDays == {1}

\* the amount of an /addbalance_<user>_<amount> command
Amounts == {DAILY_PRICE}

\* lines 341-347
pay_days_select(u, days) ==
    /\ fsm' = [fsm EXCEPT ![u].days = days,
                          ![u].amount = days * DAILY_PRICE,
                          ![u].state = "waiting_cheque"]
    /\ UNCHANGED <<pay, now, store, pc, locals, nact, nfault, flying, tl,
                   everSkip>>

\* lines 361-403
payment_cheque_received(u) ==
    /\ fsm[u].state = "waiting_cheque"
    /\ Len(payments) < MaxPayments
    /\ payments' = Append(payments,
           [id |-> Len(payments) + 1, user_id |-> u,
            amount |-> fsm[u].amount, days |-> fsm[u].days,
            status |-> "pending"])
    /\ fsm' = [fsm EXCEPT ![u] = NoState]
    /\ UNCHANGED <<balance, appr, cmds, credit, now, store, pc, locals, nact,
                   nfault, flying, tl, everSkip>>

\* a command message arrives: the n-th one, sent by `from`
Received(from) == [n |-> cmds.n + 1, from |-> from]

\* UPDATE payments SET status = s WHERE user_id = ? AND status = 'pending'
SetPending(user_id, s) ==
    [i \in 1 .. Len(payments) |->
        IF payments[i].user_id = user_id /\ payments[i].status = "pending"
        THEN [payments[i] EXCEPT !.status = s]
        ELSE payments[i]]

\* admin_approve_payment without the test of line 408
admin_approve_payment_open(from, user_id, days) ==
    /\ cmds.n < MaxCommands
    /\ cmds' = Received(from)
    /\ appr' = Append(appr,
           [user_id |-> user_id, days |-> days, row |-> users[user_id],
            t |-> now, val |-> new_until(users[user_id], now, days),
            pc |-> "update"])
    /\ UNCHANGED <<balance, payments, credit, now, store, pc, locals, nact,
                   nfault, fsm, flying, tl, everSkip>>

\* lines 406-416 and 179-195: the handler of /approve_<user_id>_<days>, up
\* to the await of the UPDATE of line 197; a sender other than the
\* administrator is turned away at line 408
admin_approve_payment(from, user_id, days) ==
    /\ cmds.n < MaxCommands
    /\ cmds' = Received(from)
    /\ IF from # ADMIN_ID
       THEN UNCHANGED appr
       ELSE appr' = Append(appr,
                [user_id |-> user_id, days |-> days, row |-> users[user_id],
                 t |-> now, val |-> new_until(users[user_id], now, days),
                 pc |-> "update"])
    /\ UNCHANGED <<balance, payments, credit, now, store, pc, locals, nact,
                   nfault, fsm, flying, tl, everSkip>>

\* lines 197-201: the UPDATE of paid_until and its commit
activate_subscription_update(h) ==
    /\ appr[h].pc = "update"
    /\ users' = [users EXCEPT ![appr[h].user_id] = appr[h].val]
    /\ credit' = [credit EXCEPT ![appr[h].user_id] = @ + appr[h].days]
    /\ appr' = [appr EXCEPT ![h].pc = "mark"]
    /\ UNCHANGED <<balance, payments, cmds, now, messages, groups, accounts,
                   pc, locals, nact, nfault, fsm, flying, tl, everSkip>>

\* lines 419-424: the UPDATE of the user's pending payments and its commit;
\* what follows in the handler only reads and sends messages
admin_approve_payment_mark(h) ==
    /\ appr[h].pc = "mark"
    /\ payments' = SetPending(appr[h].user_id, "approved")
    /\ appr' = [appr EXCEPT ![h].pc = "done"]
    /\ UNCHANGED <<balance, cmds, credit, now, store, pc, locals, nact,
                   nfault, fsm, flying, tl, everSkip>>

\* admin_reject_payment without the WHERE status = 'pending' of line 454
admin_reject_payment_any(from, user_id) ==
    /\ cmds.n < MaxCommands
    /\ cmds' = Received(from)
    /\ IF from # ADMIN_ID
       THEN UNCHANGED payments
       ELSE payments' =
              [i \in 1 .. Len(payments) |->
                  IF payments[i].user_id = user_id
                  THEN [payments[i] EXCEPT !.status = "rejected"]
                  ELSE payments[i]]
    /\ UNCHANGED <<balance, appr, credit, now, store, pc, locals, nact,
                   nfault, fsm, flying, tl, everSkip>>

\* lines 445-471: the handler of /reject_<user_id>
admin_reject_payment(from, user_id) ==
    /\ cmds.n < MaxCommands
    /\ cmds' = Received(from)
    /\ IF from # ADMIN_ID
       THEN UNCHANGED payments
       ELSE payments' = SetPending(user_id, "rejected")
    /\ UNCHANGED <<balance, appr, credit, now, store, pc, locals, nact,
                   nfault, fsm, flying, tl, everSkip>>

\* lines 171-177
add_user_balance(user_id, amount) ==
    balance' = [balance EXCEPT ![user_id] = @ + amount]

\* lines 473-492: the handler of /addbalance_<user_id>_<amount>
admin_add_balance_cmd(from, user_id, amount) ==
    /\ cmds.n < MaxCommands
    /\ cmds' = Received(from)
    /\ IF from # ADMIN_ID
       THEN UNCHANGED balance
       ELSE add_user_balance(user_id, amount)
    /\ UNCHANGED <<payments, appr, credit, now, store, pc, locals, nact,
                   nfault, fsm, flying, tl, everSkip>>

\* ------------------------------------------------------------ specifications
Worker ==
    \/ ads_worker_load
    \/ ads_worker_sub
    \/ ads_worker_due
    \/ ads_worker_groups
    \/ ads_worker_session
    \/ ads_worker_send_start
    \/ ads_worker_send_ok
    \/ ads_worker_send_flood
    \/ ads_worker_send_error
    \/ ads_worker_pace
    \/ ads_worker_flood_sleep
    \/ ads_worker_book
    \/ ads_worker_sleep

Handlers ==
    \/ \E u \in Users, d \in DaysChoices : activate_subscription(u, d)
    \/ \E a \in 1 .. Len(accounts), u \in Users : delete_account(a, u)
    \/ \E j \in JobIds : deactivate_job(j)

Next == Worker \/ Handlers

\* the store answers every call of the worker
Spec == Init /\ [][Next]_vars

\* the store may fail any call of the worker
NextFault == Next \/ ads_worker_load_error \/ ads_worker_job_error

SpecFault == Init /\ [][NextFault]_vars

\* the store when an owner with a subscription, an account, a group and an
\* ad is about to use the dialogs; the other user has none of these
InitOwner ==
    /\ now = 0
    /\ users = (1 :> DayLen) @@ (2 :> 0)
    /\ messages = <<
           [id |-> 1, user_id |-> 1, text |-> "ad1", photo_path |-> NULL,
            interval_sec |-> MinInterval,
            last_sent |-> NULL, active |-> 1, sent_count |-> 0] >>
    /\ groups = <<
           [id |-> 1, user_id |-> 1, group_id |-> "g1", is_active |-> 1] >>
    /\ accounts = <<
           [id |-> 1, user_id |-> 1, session_string |-> 1, is_active |-> 1] >>
    /\ pc = "load"
    /\ ads = <<>>
    /\ idx = 1
    /\ grp = <<>>
    /\ gi = 1
    /\ session = NoSession
    /\ wait = 0
    /\ nact = 0
    /\ nfault = 0
    /\ fsm = [u \in Users |-> NoState]
    /\ flying = <<>>
    /\ tl = [j \in JobIds |->
                [NoLog(messages[j]) EXCEPT !.actLoad = FALSE]]
    /\ everSkip = {}
    /\ balance = [u \in Users |-> 0]
    /\ payments = <<>>
    /\ appr = <<>>
    /\ cmds = [n |-> 0, from |-> ADMIN_ID]
    /\ credit = [u \in Users |-> 0]

AdDialog ==
    \/ \E u \in Users : ads_new_start(u)
    \/ \E u \in Users, t \in AdTexts : ads_text_received(u, t)
    \/ \E u \in Users, f \in PhotoPaths : ads_image_received(u, f)
    \/ \E u \in Users : ads_skip_image(u)
    \/ \E u \in Users, t \in IntervalTexts : ads_interval_received(u, t)
    \/ \E u \in Users : back_to_home(u)

GroupDialog ==
    \/ \E u \in Users : group_add_start(u)
    \/ \E u \in Users, r \in GroupRefs, found \in BOOLEAN :
          group_id_received(u, r, found)
    \/ \E g \in 1 .. Len(groups) : remove_group(g)

NextAds == Worker \/ AdDialog

\* the worker and the owners writing ads
SpecAds == InitOwner /\ [][NextAds]_vars

NextGroups == Worker \/ GroupDialog

\* the worker and the owners adding and removing groups
SpecGroups == InitOwner /\ [][NextGroups]_vars

\* the initial store in which both owners have a subscription and a group
InitPaid ==
    /\ Init
    /\ users[1] = DayLen
    /\ Len(groups) = Cardinality(Users) + 1

\* a store in which the last_sent of job 1 holds text that is no timestamp
InitLegacy ==
    /\ now = 0
    /\ users = (1 :> DayLen) @@ (2 :> DayLen)
    /\ messages = <<
           [id |-> 1, user_id |-> 1, text |-> "ad1", photo_path |-> NULL,
            interval_sec |-> MinInterval,
            last_sent |-> BadStamp, active |-> 1, sent_count |-> 0],
           [id |-> 2, user_id |-> 2, text |-> "ad2", photo_path |-> NULL,
            interval_sec |-> MinInterval + 2,
            last_sent |-> NULL, active |-> 1, sent_count |-> 0] >>
    /\ groups = <<
           [id |-> 1, user_id |-> 1, group_id |-> "g1", is_active |-> 1],
           [id |-> 2, user_id |-> 1, group_id |-> "g2", is_active |-> 1],
           [id |-> 3, user_id |-> 2, group_id |-> "g3", is_active |-> 1] >>
    /\ accounts = <<
           [id |-> 1, user_id |-> 1, session_string |-> 1, is_active |-> 1],
           [id |-> 2, user_id |-> 2, session_string |-> 2, is_active |-> 1] >>
    /\ pc = "load"
    /\ ads = <<>>
    /\ idx = 1
    /\ grp = <<>>
    /\ gi = 1
    /\ session = NoSession
    /\ wait = 0
    /\ nact = 0
    /\ nfault = 0
    /\ fsm = [u \in Users |-> NoState]
    /\ flying = <<>>
    /\ tl = [j \in JobIds |->
                [NoLog(messages[j]) EXCEPT !.actLoad = FALSE]]
    /\ everSkip = {}
    /\ balance = [u \in Users |-> 0]
    /\ payments = <<>>
    /\ appr = <<>>
    /\ cmds = [n |-> 0, from |-> ADMIN_ID]
    /\ credit = [u \in Users |-> 0]

\* the worker and the handlers on such a store
SpecLegacy == InitLegacy /\ [][Next]_vars

\* the worker and the handlers on that store
SpecPaid == InitPaid /\ [][Next]_vars

\* paid_until of an owner whose subscription runs out one second after the
\* process starts
ExpiresSoon == 2

\* the initial store in which the subscription of user 1 is about to expire
InitExpiring ==
    /\ now = 0
    /\ users = (1 :> ExpiresSoon) @@ (2 :> DayLen)
    /\ messages = <<
           [id |-> 1, user_id |-> 1, text |-> "ad1", photo_path |-> NULL,
            interval_sec |-> MinInterval,
            last_sent |-> NULL, active |-> 1, sent_count |-> 0],
           [id |-> 2, user_id |-> 2, text |-> "ad2", photo_path |-> NULL,
            interval_sec |-> MinInterval + 2,
            last_sent |-> NULL, active |-> 1, sent_count |-> 0] >>
    /\ groups = <<
           [id |-> 1, user_id |-> 1, group_id |-> "g1", is_active |-> 1],
           [id |-> 2, user_id |-> 1, group_id |-> "g2", is_active |-> 1],
           [id |-> 3, user_id |-> 2, group_id |-> "g3", is_active |-> 1] >>
    /\ accounts = <<
           [id |-> 1, user_id |-> 1, session_string |-> 1, is_active |-> 1],
           [id |-> 2, user_id |-> 2, session_string |-> 2, is_active |-> 1] >>
    /\ pc = "load"
    /\ ads = <<>>
    /\ idx = 1
    /\ grp = <<>>
    /\ gi = 1
    /\ session = NoSession
    /\ wait = 0
    /\ nact = 0
    /\ nfault = 0
    /\ fsm = [u \in Users |-> NoState]
    /\ flying = <<>>
    /\ tl = [j \in JobIds |->
                [NoLog(messages[j]) EXCEPT !.actLoad = FALSE]]
    /\ everSkip = {}
    /\ balance = [u \in Users |-> 0]
    /\ payments = <<>>
    /\ appr = <<>>
    /\ cmds = [n |-> 0, from |-> ADMIN_ID]
    /\ credit = [u \in Users |-> 0]

\* the worker and the handlers on that store
SpecExpiring == InitExpiring /\ [][Next]_vars

NextLive ==
    \/ Worker
    \/ \E a \in 1 .. Len(accounts), u \in Users : delete_account(a, u)

\* the worker with a store that answers every call, while owners may
\* remove accounts; the event loop resumes the worker whenever the await
\* it is suspended at is over
SpecLive == InitPaid /\ [][NextLive]_vars /\ WF_vars(Worker)

\* paid_until of user 1 in the approval runs: none, text that is no
\* timestamp, soon to lapse, far ahead
PayExpiries == {NULL, BadStamp, 10, DayLen}

\* a store without jobs, in which the worker only loads and sleeps
InitApprove ==
    /\ now = 0
    /\ \E e \in PayExpiries : users = (1 :> e) @@ (2 :> DayLen)
    /\ messages = <<>>
    /\ groups = <<>>
    /\ accounts = <<>>
    /\ pc = "load"
    /\ ads = <<>>
    /\ idx = 1
    /\ grp = <<>>
    /\ gi = 1
    /\ session = NoSession
    /\ wait = 0
    /\ nact = 0
    /\ nfault = 0
    /\ fsm = [u \in Users |-> NoState]
    /\ flying = <<>>
    /\ tl = <<>>
    /\ everSkip = {}
    /\ balance = [u \in Users |-> 0]
    /\ payments = <<>>
    /\ appr = <<>>
    /\ cmds = [n |-> 0, from |-> ADMIN_ID]
    /\ credit = [u \in Users |-> 0]

\* that store when both users have a subscription
InitPay == InitApprove /\ users[1] = DayLen

\* that store after each user has sent the cheque of a payment
InitPending ==
    /\ now = 0
    /\ users = (1 :> DayLen) @@ (2 :> DayLen)
    /\ messages = <<>>
    /\ groups = <<>>
    /\ accounts = <<>>
    /\ pc = "load"
    /\ ads = <<>>
    /\ idx = 1
    /\ grp = <<>>
    /\ gi = 1
    /\ session = NoSession
    /\ wait = 0
    /\ nact = 0
    /\ nfault = 0
    /\ fsm = [u \in Users |-> NoState]
    /\ flying = <<>>
    /\ tl = <<>>
    /\ everSkip = {}
    /\ balance = [u \in Users |-> 0]
    /\ payments = [u \in 1 .. Cardinality(Users) |->
                      [id |-> u, user_id |-> u, amount |-> DAILY_PRICE,
                       days |-> 1, status |-> "pending"]]
    /\ appr = <<>>
    /\ cmds = [n |-> 0, from |-> ADMIN_ID]
    /\ credit = [u \in Users |-> 0]

PayDialog ==
    \/ \E u \in Users, d \in ChequeDays : pay_days_select(u, d)
    \/ \E u \in Users : payment_cheque_received(u)

\* the handler of /approve_<user_id>_<days>, await by await
Approvals(S) ==
    \/ \E s \in S, u \in Users, d \in PayDays :
           admin_approve_payment(s, u, d)
    \/ \E h \in 1 .. Len(appr) : activate_subscription_update(h)
    \/ \E h \in 1 .. Len(appr) : admin_approve_payment_mark(h)

\* the command messages sent by the members of S, each handled as a task
AdminCommands(S) ==
    \/ Approvals(S)
    \/ \E s \in S, u \in Users : admin_reject_payment(s, u)
    \/ \E s \in S, u \in Users, a \in Amounts :
           admin_add_balance_cmd(s, u, a)

NextPay == PayDialog \/ AdminCommands({ADMIN_ID})

\* the payment dialog of the users and the commands of the administrator
SpecPay == InitPay /\ [][NextPay]_vars

NextApprove ==
    \/ ads_worker_load
    \/ ads_worker_sleep
    \/ Approvals({ADMIN_ID})

\* approvals by the administrator while the clock advances
SpecApprove == InitApprove /\ [][NextApprove]_vars

NextGuard == AdminCommands(Senders)

\* command messages sent by anybody
SpecGuard == InitPending /\ [][NextGuard]_vars

NextStop == Next \/ ads_worker_cancel

\* the process may shut down at any moment
SpecStop == InitPaid /\ [][NextStop]_vars

NextLoop ==
    \/ Worker
    \/ ads_worker_load_error
    \/ ads_worker_job_error

\* the worker alone, with a store that may fail; the event loop resumes the
\* worker whenever the await it is suspended at is over
SpecLoop == InitPaid /\ [][NextLoop]_vars /\ WF_vars(Worker)

\* ---------------------------------------------------------------- claims
\* the worker is processing job j
Current(j) ==
    /\ pc \in {"sub", "due", "groups", "session", "send", "sending", "pace",
               "flood", "book"}
    /\ Job.id = j

\* job j was admitted in this tick
Admitted(j) == tl[j].out = "pass"

\* job j was admitted in this tick and the worker has left it
PassOver(j) == Admitted(j) /\ ~Current(j)

\* the time check holds of what the store held when it was made
DueTruth(j) ==
    \/ tl[j].last0 = NULL
    \/ tl[j].dnow - tl[j].last0 >= messages[j].interval_sec

Refs(att) == {att[i].ref : i \in 1 .. Len(att)}

\* C1: in every tick, the bookkeeping UPDATE runs for a job only if the job
\* was admitted, never more than once, and once the pass of an admitted job
\* is over it has run exactly once, sent_count is one more than at the start
\* of the tick and last_sent is set, whatever the outcomes of the sends; a
\* job that was not admitted keeps its sent_count and last_sent.
C1_BookkeepingOncePerAdmittedJob ==
    \A j \in JobIds :
        /\ tl[j].books <= 1
        /\ tl[j].books = 1 => Admitted(j)
        /\ PassOver(j) =>
              /\ tl[j].books = 1
              /\ messages[j].sent_count = tl[j].cnt0 + 1
              /\ messages[j].last_sent # NULL
        /\ (~Admitted(j) \/ (Current(j) /\ tl[j].books = 0)) =>
              /\ tl[j].books = 0
              /\ messages[j].sent_count = tl[j].cnt0
              /\ messages[j].last_sent = tl[j].lastLoad

\* C1 witness: a pass in which every send failed or was throttled, recorded
\* once.
C1_Witness ==
    \E j \in JobIds :
        /\ PassOver(j)
        /\ Len(tl[j].att) = 2
        /\ tl[j].att[1].res = "error"
        /\ tl[j].att[2].res = "flood"
        /\ tl[j].books = 1
        /\ messages[j].sent_count = tl[j].cnt0 + 1

\* C2 as claimed: a job gets a pass (a send, or the bookkeeping) only if it
\* is active when the worker evaluates it, and the subscription, the
\* destinations and the credential are there.
C2_Original ==
    \A j \in JobIds :
        (Admitted(j) \/ tl[j].att # <<>> \/ tl[j].books > 0) =>
            /\ tl[j].actEval
            /\ tl[j].subT
            /\ tl[j].dests # {}
            /\ tl[j].credT

\* C2, amended: a job gets a pass only if it was active when the tick loaded
\* its rows, and paid_until was later than now, the owner had an active
\* destination and an active credential, each when the worker read it for
\* this job; and a job active at the load is evaluated, and is skipped only
\* at a check that fails: so when all hold and the job is due, the pass runs.
C2_PassIffGates ==
    \A j \in JobIds :
        /\ (Admitted(j) \/ tl[j].att # <<>> \/ tl[j].books > 0) =>
              /\ tl[j].actLoad
              /\ tl[j].subT
              /\ tl[j].dests # {}
              /\ tl[j].credT
              /\ DueTruth(j)
        /\ tl[j].actLoad <=> (\E i \in 1 .. Len(ads) : ads[i].id = j)
        /\ tl[j].out = "skip_sub" => ~tl[j].subT
        /\ tl[j].out = "skip_due" => ~DueTruth(j)
        /\ tl[j].out = "skip_grp" => tl[j].dests = {}
        /\ tl[j].out = "skip_cred" => ~tl[j].credT
        /\ (pc = "sleep" /\ tl[j].actLoad) =>
              tl[j].out \in {"skip_sub", "skip_due", "skip_grp", "skip_cred",
                             "pass"}

\* C2 witness: one job admitted and recorded, another refused for want of a
\* credential, in the same tick.
C2_Witness ==
    \E j, k \in JobIds :
        /\ PassOver(j)
        /\ tl[j].books = 1
        /\ tl[k].out = "skip_cred"

\* C3: whenever the time check is made for a job, the job goes on iff its
\* last_sent is unset or at least interval_sec has passed since (boundary
\* included).
C3_DueIffElapsed ==
    \A j \in JobIds :
        tl[j].dnow # NULL => ((tl[j].out # "skip_due") <=> DueTruth(j))

\* C3 witness: a job admitted when exactly interval_sec has passed.
C3_Witness ==
    \E j \in JobIds :
        /\ tl[j].last0 # NULL
        /\ tl[j].dnow - tl[j].last0 = messages[j].interval_sec
        /\ Admitted(j)

\* the first send of a pass to the destination of attempt i
FirstTo(att, i) == i = 1 \/ att[i - 1].gi # att[i].gi

\* C4 as claimed: a first send answered by a throttle signal is followed by
\* exactly one more send to the same destination, before any send to the
\* next destination and before the pass ends.
C4_RetryAfterThrottle ==
    \A j \in JobIds :
        LET att == tl[j].att IN
        \A i \in 1 .. Len(att) :
            (att[i].res = "flood" /\ FirstTo(att, i)) =>
                /\ i < Len(att) => att[i + 1].gi = att[i].gi
                /\ i + 2 <= Len(att) => att[i + 2].gi # att[i].gi
                /\ PassOver(j) => i < Len(att)

\* C5 as claimed: when a tick ends, every job it loaded has been evaluated
\* (skipped at a gate, admitted, or failed itself), whatever failed for the
\* other jobs.
C5_JobsIsolated ==
    pc = "sleep" =>
        \A i \in 1 .. Len(ads) : tl[ads[i].id].out # "none"

\* C6: a send that fails or is throttled does not end the pass: once the
\* pass of an admitted job is over, every destination its owner had when the
\* groups were read has been sent to, and the bookkeeping has run.
C6_EveryDestinationAttempted ==
    \A j \in JobIds :
        /\ PassOver(j) =>
              /\ tl[j].dests \subseteq Refs(tl[j].att)
              /\ tl[j].books = 1
        /\ (Current(j) /\ pc = "book") =>
              tl[j].dests \subseteq Refs(tl[j].att)

\* C6 witness: a pass whose first send failed and whose second send was
\* made all the same.
C6_Witness ==
    \E j \in JobIds :
        /\ PassOver(j)
        /\ Len(tl[j].att) = 2
        /\ tl[j].att[1].res \in {"error", "flood"}
        /\ tl[j].att[1].ref # tl[j].att[2].ref
        /\ tl[j].dests = Refs(tl[j].att)

\* C7: a tick in which a job is evaluated less than interval_sec after its
\* recorded last_sent issues no send for it and leaves its sent_count and
\* last_sent alone; so a send or a bookkeeping run in a tick means the job
\* had never run or at least interval_sec had passed.
C7_CadencePerJob ==
    \A j \in JobIds :
        /\ (tl[j].att # <<>> \/ tl[j].books > 0) => DueTruth(j)
        /\ (tl[j].dnow # NULL /\ ~DueTruth(j)) =>
              /\ tl[j].att = <<>>
              /\ tl[j].books = 0
              /\ messages[j].sent_count = tl[j].cnt0
              /\ messages[j].last_sent = tl[j].last0

\* C7 witness: a job that has run once is evaluated too early in a later
\* tick: no send, sent_count still 1.
C7_Witness ==
    \E j \in JobIds :
        /\ tl[j].out = "skip_due"
        /\ tl[j].dnow - tl[j].last0 < messages[j].interval_sec
        /\ tl[j].att = <<>>
        /\ messages[j].sent_count = 1

\* the time the sleeps of a pass take: the pacing delay after each send
\* that returned and the signalled wait after each throttled send
RECURSIVE SumWaits(_)
SumWaits(att) ==
    IF att = <<>> THEN 0
    ELSE (IF Head(att).res = "ok" THEN PaceDelay ELSE Head(att).w)
         + SumWaits(Tail(att))

\* a never-run job with two destinations whose pass is over
FirstPassOver(j) ==
    /\ PassOver(j)
    /\ tl[j].cnt0 = 0
    /\ tl[j].lastLoad = NULL
    /\ Cardinality(tl[j].dests) = 2

\* each of the two destinations was sent to once, in the order read
BothSentOnce(j) ==
    /\ Len(tl[j].att) = 2
    /\ Refs(tl[j].att) = tl[j].dests

\* C8 as claimed: the first pass of a never-run job with two destinations
\* sends to both, leaves sent_count at 1 and sets last_sent to the now of
\* the job's time check.
C8_Original ==
    \A j \in JobIds :
        FirstPassOver(j) =>
            /\ BothSentOnce(j)
            /\ messages[j].sent_count = 1
            /\ messages[j].last_sent = tl[j].dnow

\* C8, amended: the first pass of a never-run job with two destinations
\* sends once to each, leaves sent_count at 1 and sets last_sent to the time
\* at which the bookkeeping runs, after the sends and their sleeps: not
\* earlier than the now of the time check plus the pacing and throttle
\* waits of the pass, and not later than the present.
C8_FirstPassStampedAfterSends ==
    \A j \in JobIds :
        FirstPassOver(j) =>
            /\ BothSentOnce(j)
            /\ messages[j].sent_count = 1
            /\ messages[j].last_sent >= tl[j].dnow + SumWaits(tl[j].att)
            /\ messages[j].last_sent <= now

\* C8 witness: both sends returned, and last_sent is later than the now of
\* the time check.
C8_Witness ==
    \E j \in JobIds :
        /\ FirstPassOver(j)
        /\ \A i \in 1 .. 2 : tl[j].att[i].res = "ok"
        /\ messages[j].sent_count = 1
        /\ messages[j].last_sent = tl[j].dnow + 2 * PaceDelay

\* C9: in every tick, a job whose subscription check has been made is
\* refused there iff the owner's paid_until was missing, unparsable or not
\* later than now at that moment, whatever earlier ticks decided; and a job
\* refused there gets no send and keeps its last_sent and sent_count.
C9_SubscriptionCheckedEveryTick ==
    \A j \in JobIds :
        /\ tl[j].out # "none" => ((tl[j].out = "skip_sub") <=> ~tl[j].subT)
        /\ tl[j].out = "skip_sub" =>
              /\ tl[j].att = <<>>
              /\ tl[j].books = 0
              /\ messages[j].sent_count = tl[j].cnt0
              /\ messages[j].last_sent = tl[j].lastLoad
        /\ ~tl[j].subT => tl[j].out = "skip_sub"

\* C9 witness: a job admitted in an earlier tick, refused in a later one
\* for want of a subscription, and admitted again after the expiry moved.
C9_Witness ==
    \E j \in JobIds :
        /\ j \in everSkip
        /\ tl[j].cnt0 >= 1
        /\ PassOver(j)
        /\ messages[j].sent_count = 2

\* C10 as claimed: no send and no bookkeeping for a job whose active flag is
\* false when the worker starts its pass.
C10_Original ==
    \A j \in JobIds :
        (tl[j].att # <<>> \/ tl[j].books > 0) => tl[j].actStart

\* C10, amended: no send and no bookkeeping in a tick for a job whose active
\* flag was false when the tick loaded its rows, whatever its other fields:
\* such a job is not evaluated at all in that tick.
C10_InactiveAtLoadNeverPassed ==
    \A j \in JobIds :
        ~tl[j].actLoad =>
            /\ tl[j].out = "none"
            /\ tl[j].att = <<>>
            /\ tl[j].books = 0
            /\ messages[j].sent_count = tl[j].cnt0
            /\ messages[j].last_sent = tl[j].lastLoad
            /\ ~Current(j)

\* C10 witness: a tick that ran to its end without touching a job that had
\* run before and was inactive when the tick loaded its rows, while the
\* job's subscription, destinations, credential and due time were all there.
C10_Witness ==
    \E j \in JobIds :
        /\ pc = "sleep"
        /\ ads # <<>>
        /\ ~tl[j].actLoad
        /\ messages[j].sent_count = 1
        /\ now - messages[j].last_sent >= messages[j].interval_sec
        /\ SubTruth(messages[j].user_id)
        /\ ActiveDests(messages[j].user_id) # {}
        /\ CredTruth(messages[j].user_id)

\* the sends of a pass made to the destination at position k
SendsTo(att, k) == {i \in 1 .. Len(att) : att[i].gi = k}

\* the first sends of a pass, and the sends that repeat the one before
InitialSends(att) == {i \in 1 .. Len(att) : FirstTo(att, i)}
RetrySends(att) == {i \in 1 .. Len(att) : ~FirstTo(att, i)}

\* C11: in every tick and for every job, with N the number of destinations
\* read for its pass, the sends issued for the job are at most N initial
\* sends and at most N repeated sends, no destination is sent to more than
\* twice, and the job is passed at most once: it is fetched once, its
\* destinations are gone through once in order, its bookkeeping runs at
\* most once.
C11_BoundedSends ==
    \A j \in JobIds :
        LET att == tl[j].att
            N == Cardinality(tl[j].dests)
        IN /\ Cardinality(InitialSends(att)) <= N
           /\ Cardinality(RetrySends(att)) <= N
           /\ \A k \in 1 .. Len(att) : Cardinality(SendsTo(att, k)) <= 2
           /\ \A i \in 1 .. Len(att) - 1 : att[i].gi <= att[i + 1].gi
           /\ Cardinality({i \in 1 .. Len(ads) : ads[i].id = j}) <= 1
           /\ tl[j].books <= 1

\* C11 witness: a pass over two destinations, throttled at each of them,
\* that ended after two sends.
C11_Witness ==
    \E j \in JobIds :
        /\ PassOver(j)
        /\ Cardinality(tl[j].dests) = 2
        /\ Len(tl[j].att) = 2
        /\ \A i \in 1 .. 2 : tl[j].att[i].res = "flood"

\* the step is the bookkeeping of job j, after every destination of its
\* pass was sent to
BookStep(j) ==
    /\ pc = "book"
    /\ pc' # "book"
    /\ Job.id = j
    /\ Admitted(j)
    /\ Len(tl[j].att) = Len(grp)

\* C12: sent_count is never negative; no step removes a job or lowers a
\* sent_count; a step that changes the sent_count of a job raises it by
\* exactly 1 and is the bookkeeping of a completed pass of that job, and
\* that bookkeeping always raises it; a job starts with sent_count 0.
C12_SentCountMonotonic ==
    /\ [](\A j \in JobIds : messages[j].sent_count >= 0)
    /\ [][ /\ Len(messages') >= Len(messages)
           /\ \A j \in JobIds :
                 /\ \/ messages'[j].sent_count = messages[j].sent_count
                    \/ /\ messages'[j].sent_count
                            = messages[j].sent_count + 1
                       /\ BookStep(j)
                 /\ BookStep(j) =>
                       messages'[j].sent_count = messages[j].sent_count + 1
           /\ \A j \in 1 .. Len(messages') :
                 j > Len(messages) => messages'[j].sent_count = 0 ]_vars

\* C12 witness: a job that was passed twice and counts 2, and a job written
\* in the dialog since, passed once, that counts 1.
C12_Witness ==
    \E j, k \in JobIds :
        /\ messages[j].sent_count = 2
        /\ k > 1
        /\ messages[k].sent_count = 1
        /\ fsm[messages[k].user_id].state = "none"

\* C13: every step of ads_worker leaves users, groups and accounts as they
\* are, adds and removes no job, and leaves every field of every job as it
\* is except last_sent and sent_count; and the job whose last_sent or
\* sent_count it changes is the one whose pass it has just run.
C13_WorkerWritesOnlyRuntimeFields ==
    [][ Worker =>
          /\ UNCHANGED <<users, groups, accounts>>
          /\ Len(messages') = Len(messages)
          /\ \A j \in JobIds :
                /\ messages'[j] =
                      [messages[j] EXCEPT
                          !.last_sent = messages'[j].last_sent,
                          !.sent_count = messages'[j].sent_count]
                /\ messages'[j] # messages[j] => BookStep(j) ]_vars

\* C13 witness: the worker has run a pass of each job while no handler ran:
\* the store differs from the initial one in last_sent and sent_count only.
C13_Witness ==
    /\ nact = 0
    /\ Len(groups) = 3
    /\ \A g \in 1 .. Len(groups) : groups[g].is_active = 1
    /\ \A a \in 1 .. Len(accounts) : accounts[a].is_active = 1
    /\ \A j \in JobIds :
          /\ messages[j].active = 1
          /\ messages[j].sent_count = 1
          /\ messages[j].last_sent # NULL
          /\ messages[j].interval_sec = MinInterval + 2 * (j - 1)
          /\ messages[j].photo_path = NULL

\* the sends in flight under credential c
FlyingUnder(c) == {i \in 1 .. Len(flying) : flying[i].cred = c}

\* C14: at most one send is in flight under any credential, and a send is
\* in flight only while the worker is suspended in it: the next send, to
\* the next destination or of another job, starts after the one before has
\* returned or raised.
C14_SendsSequentialPerCredential ==
    /\ \A i \in 1 .. Len(flying) :
          Cardinality(FlyingUnder(flying[i].cred)) <= 1
    /\ flying # <<>> => pc = "sending"
    /\ pc = "sending" => flying = <<Flight>>

\* C14 witness: in one tick, after the sends of a job have returned, the
\* send of another job of the same owner is in flight under the same
\* credential, alone.
C14_Witness ==
    \E j \in JobIds :
        /\ pc = "sending"
        /\ Job.id # j
        /\ Job.user_id = messages[j].user_id
        /\ PassOver(j)
        /\ tl[j].att # <<>>
        /\ tl[j].att[1].cred = session
        /\ Cardinality(FlyingUnder(session)) = 1

\* C15 as claimed: when the worker has stopped, every job for which the last
\* tick issued a send has had all its destinations sent to and its
\* bookkeeping written.
C15_StopOnlyBetweenTicks ==
    pc = "done" =>
        \A j \in JobIds :
            tl[j].att # <<>> =>
                /\ tl[j].dests \subseteq Refs(tl[j].att)
                /\ tl[j].books = 1

\* C16: a tick that fails, at the load or at a store call made for a job,
\* ends in the sleep of the tick period, never in the end of the task; and
\* from that sleep, while the time horizon leaves room for it, the worker
\* starts another tick.
C16_LoopSurvivesErrors ==
    /\ [][nfault' > nfault => pc' = "sleep"]_vars
    /\ [](pc # "done")
    /\ (pc = "sleep" /\ now + TickSleep <= MaxTime) ~> (pc = "load")

\* C16 witness: the worker is about to load a tick after the tick before
\* failed at a job.
C16_Witness ==
    /\ pc = "load"
    /\ nfault > 0
    /\ now >= TickSleep
    /\ \E j \in JobIds : tl[j].out = "raised"

\* the time check of job j in this tick read a last_sent that is set but
\* cannot be parsed
BadStampSeen(j) ==
    /\ tl[j].dnow # NULL
    /\ tl[j].last0 # NULL
    /\ ~Parsable(tl[j].last0)

\* C17: a job whose last_sent is set but cannot be parsed passes the time
\* check, so that it is admitted iff its owner has a group and a
\* credential; once its pass is over its last_sent is a timestamp; and a
\* time check that reads a timestamp lets the job on iff interval_sec has
\* passed since.
C17_BadTimestampFailsOpen ==
    \A j \in JobIds :
        /\ BadStampSeen(j) =>
              /\ tl[j].out # "skip_due"
              /\ tl[j].out \in {"skip_grp", "skip_cred", "pass"} =>
                    (Admitted(j) <=> (tl[j].dests # {} /\ tl[j].credT))
        /\ PassOver(j) =>
              /\ messages[j].last_sent # NULL
              /\ Parsable(messages[j].last_sent)
        /\ (tl[j].dnow # NULL /\ tl[j].last0 # NULL
                /\ Parsable(tl[j].last0)) =>
              ((tl[j].out # "skip_due") <=>
                  tl[j].dnow - tl[j].last0 >= messages[j].interval_sec)

\* C17 witness: the job that started with the bad last_sent has been passed
\* once, and a later tick skips it because its interval has not passed.
C17_Witness ==
    \E j \in JobIds :
        /\ tl[j].out = "skip_due"
        /\ tl[j].lastLoad # NULL
        /\ Parsable(tl[j].lastLoad)
        /\ messages[j].sent_count = 1
        /\ messages[j].interval_sec = MinInterval

\* the rows of table groups the sends of a pass went to
RowsOf(att) == {att[i].row : i \in 1 .. Len(att)}

\* C18: the sends of a pass go to the groups of the owner that are active
\* when the pass reads them (line 1004), whenever they were added: none to
\* a group removed before or belonging to someone else, and, once the pass
\* is over, one to each group that was active then.
C18_FanOutToCurrentDestinations ==
    \A j \in JobIds :
        /\ RowsOf(tl[j].att) \subseteq tl[j].rows
        /\ Refs(tl[j].att) \subseteq tl[j].dests
        /\ \A r \in tl[j].rows : groups[r].user_id = messages[j].user_id
        /\ PassOver(j) => RowsOf(tl[j].att) = tl[j].rows

\* C18 witness: a job that existed before any group was added or removed
\* has had a pass that went to a group added since and not to the group
\* the owner had at first, removed before the pass.
C18_Witness ==
    \E j \in JobIds :
        /\ PassOver(j)
        /\ groups[1].user_id = messages[j].user_id
        /\ groups[1].is_active = 0
        /\ 1 \notin RowsOf(tl[j].att)
        /\ \E r \in RowsOf(tl[j].att) : r > 1
        /\ messages[j].sent_count = 2

\* the users who have an account holding session c
HoldersOf(c) ==
    {accounts[i].user_id : i \in {k \in 1 .. Len(accounts) :
        accounts[k].session_string = c}}

\* C19: all the sends of a pass use one session; it is the session of an
\* account of the job's owner that was active when
\* the pass read it (line 1007); and a job whose owner had no active
\* account then issues no send.
C19_OneOwnCredentialPerPass ==
    \A j \in JobIds :
        /\ \A i \in 1 .. Len(tl[j].att) :
              /\ tl[j].att[i].cred = tl[j].att[1].cred
              /\ tl[j].att[i].cred \in tl[j].creds
              /\ messages[j].user_id \in HoldersOf(tl[j].att[i].cred)
        /\ (Current(j) /\ Admitted(j)) => session \in tl[j].creds
        /\ tl[j].creds = {} => tl[j].att = <<>>

\* C19 witness: the second send of a pass is in flight under the session
\* the first one used, the owner's, active when the pass started and
\* soft-deleted since.
C19_Witness ==
    \E j \in JobIds :
        /\ Current(j)
        /\ pc = "sending"
        /\ Len(tl[j].att) = 1
        /\ tl[j].att[1].cred = session
        /\ session \in tl[j].creds
        /\ ActiveCreds(messages[j].user_id) = {}

\* the text parses as an integer that is at least the minimum interval
AcceptedInterval(t) ==
    /\ IsInt(Strip(t))
    /\ HalfSeconds(ToInt(Strip(t))) >= MinInterval

\* C20: every job has interval_sec >= 15 s; no step changes the
\* interval_sec of a job; a job is added only by the interval step of the
\* dialog, from the state waiting_interval, with the interval submitted;
\* and that step, on a text that is no integer or an integer below 15,
\* adds nothing and leaves the dialog where it is.
C20_IntervalAtLeastMinimum ==
    /\ [](\A j \in JobIds : messages[j].interval_sec >= MinInterval)
    /\ [][ /\ \A j \in JobIds :
                 /\ j <= Len(messages')
                 /\ messages'[j].interval_sec = messages[j].interval_sec
           /\ Len(messages') > Len(messages) =>
                 \E u \in Users, t \in IntervalTexts :
                     /\ ads_interval_received(u, t)
                     /\ AcceptedInterval(t)
                     /\ messages'[Len(messages')].interval_sec
                            = HalfSeconds(ToInt(Strip(t)))
           /\ \A u \in Users, t \in IntervalTexts :
                 (ads_interval_received(u, t) /\ ~AcceptedInterval(t)) =>
                     /\ messages' = messages
                     /\ fsm'[u].state = "waiting_interval" ]_vars

\* C20 witness: the dialog has added a job on the text " 15 ", the smallest
\* interval accepted, and is over.
C20_Witness ==
    \E j \in JobIds :
        /\ j > 1
        /\ messages[j].interval_sec = MinInterval
        /\ fsm[messages[j].user_id] = NoState
        /\ messages[j].sent_count = 1

\* C21: whenever the worker has a send in flight, every throttle signal
\* received earlier in the tick, for whatever job and destination, lies at
\* least its wait w in the past, and every send of the same pass that
\* returned normally lies at least the pacing delay in the past.
C21_SendsRespectWaits ==
    pc = "sending" =>
        \A j \in JobIds :
            \A i \in 1 .. Len(tl[j].att) :
                LET a == tl[j].att[i]
                IN /\ a.res = "flood" => now >= a.t + a.w
                   /\ (a.res = "ok" /\ j = Job.id) => now >= a.t + PaceDelay

\* C21 witness: the pass of one job had a send that returned and then a
\* send that was throttled, and a send of the next job is now in flight.
C21_Witness ==
    /\ pc = "sending"
    /\ \E j \in JobIds :
           /\ j # Job.id
           /\ Len(tl[j].att) = 2
           /\ tl[j].att[1].res = "ok"
           /\ tl[j].att[2].res = "flood"
           /\ tl[j].att[2].t >= tl[j].att[1].t + PaceDelay
           /\ now >= tl[j].att[2].t + tl[j].att[2].w

\* C22: no send is issued for an owner whose subscription has expired at
\* the time of the send: whenever a send of a job is in flight, the
\* paid_until of the job's owner is later than the current time.
C22_NoSendAfterExpiry ==
    pc = "sending" => SubTruth(Job.user_id)

\* job j is active, its owner has an unexpired subscription, an active
\* destination and an active credential
Eligible(j) ==
    /\ messages[j].active = 1
    /\ SubTruth(messages[j].user_id)
    /\ ActiveDests(messages[j].user_id) # {}
    /\ CredTruth(messages[j].user_id)

\* a tick has just loaded job j at a moment when its interval has elapsed
LoadedDue(j) ==
    /\ pc = "sub"
    /\ idx = 1
    /\ \E i \in 1 .. Len(ads) : ads[i].id = j
    /\ \/ messages[j].last_sent = NULL
       \/ now - messages[j].last_sent >= messages[j].interval_sec

\* the worker is in a sleep that ends after the time horizon of the model
HorizonHit ==
    \/ pc = "pace" /\ now + PaceDelay > MaxTime
    \/ pc = "flood" /\ now + wait > MaxTime

\* C23: with a store that answers, sends that return or fail and finite
\* throttle waits, under fairness of the worker: ticks recur (every tick
\* sleep that the time horizon leaves room for leads to the next load),
\* and every tick that loads an eligible job whose interval has elapsed
\* leads to the job's sent_count exceeding what it was at the load, unless
\* the job stops being eligible or the time horizon cuts the pass; this
\* for every job, whatever the other job of the store does.
C23_EligibleJobServed ==
    /\ (pc = "sleep" /\ now + TickSleep <= MaxTime) ~> (pc = "load")
    /\ \A j \in 1 .. MaxJobs :
           (j \in JobIds /\ LoadedDue(j) /\ Eligible(j)) ~>
               \/ j \notin JobIds
               \/ messages[j].sent_count > tl[j].cnt0
               \/ ~Eligible(j)
               \/ HorizonHit

\* C23 witness: the job that is second in the store was passed again in
\* a later tick, after the job before it was passed in the same tick.
C23_Witness ==
    /\ messages[2].sent_count = 2
    /\ messages[1].sent_count = 2
    /\ \A j \in JobIds : Eligible(j)

\* the sum of the days of the rows of table payments up to row n that
\* belong to user_id and have status 'approved'
RECURSIVE ApprovedDaysUpTo(_, _)
ApprovedDaysUpTo(user_id, n) ==
    IF n = 0 THEN 0
    ELSE ApprovedDaysUpTo(user_id, n - 1)
         + (IF /\ payments[n].user_id = user_id
               /\ payments[n].status = "approved"
            THEN payments[n].days ELSE 0)

ApprovedDays(user_id) == ApprovedDaysUpTo(user_id, Len(payments))

\* no /approve_ handler is between its first and its last UPDATE
NoApprovalRunning == \A h \in 1 .. Len(appr) : appr[h].pc = "done"

\* C24: whenever no approval is being handled, for each user the days
\* credited to the subscription by approvals so far equal the sum of the
\* days of the user's payments that have status 'approved'.
C24_AccountingConsistent ==
    NoApprovalRunning =>
        \A u \in Users : credit[u] = ApprovedDays(u)

Max(a, b) == IF a >= b THEN a ELSE b

\* a paid_until that holds a timestamp
StoredExpiry(row) == row # NULL /\ Parsable(row)

ApprovalsOf(u) == {h \in 1 .. Len(appr) : appr[h].user_id = u}

\* the instant from which the approval h extended the subscription
BaseOf(h) ==
    IF StoredExpiry(appr[h].row) THEN Max(appr[h].row, appr[h].t)
    ELSE appr[h].t

\* C26: when exactly two approvals were received for a user and both have
\* completed, the user's expiry is the instant the first one extended from
\* plus the days of both, whether or not the second read paid_until before
\* the first wrote it.
C26_NoLostUpdate ==
    \A u \in Users :
        \A h1, h2 \in ApprovalsOf(u) :
            (/\ h1 < h2
             /\ ApprovalsOf(u) = {h1, h2}
             /\ appr[h1].pc = "done"
             /\ appr[h2].pc = "done")
            => users[u] = BaseOf(h1) + (appr[h1].days + appr[h2].days) * DayLen

\* C27: a step that receives an /approve_, /reject_ or /addbalance_ command
\* from a sender other than the administrator leaves every paid_until,
\* every balance and every payment as they are, and starts no handler
\* that would change them later.
C27_OnlyAdminChangesState ==
    [][(cmds'.n = cmds.n + 1 /\ cmds'.from # ADMIN_ID) =>
           /\ users' = users
           /\ balance' = balance
           /\ payments' = payments
           /\ appr' = appr
           /\ credit' = credit]_vars

\* C27 witness: after the administrator rejected the pending payment of
\* one user, a command sent by a user has left the pending payment of the
\* other user pending and the balances as the administrator left them.
C27_Witness ==
    /\ cmds.n = 2
    /\ cmds.from \in Users
    /\ \E i \in 1 .. Len(payments) : payments[i].status = "rejected"
    /\ \E i \in 1 .. Len(payments) : payments[i].status = "pending"
    /\ appr = <<>>
    /\ \A u \in Users : balance[u] = 0

\* C28: the rows of table payments are never removed, a row is created
\* with status 'pending', a step changes nothing of a row but its status,
\* and it changes the status only from 'pending': to 'approved' if it is
\* a step of an /approve_ handler and to 'rejected' otherwise; so a row
\* that is 'approved' or 'rejected' keeps its status whatever commands
\* follow.
C28_PaymentLifeCycle ==
    [][/\ Len(payments') >= Len(payments)
       /\ \A i \in 1 .. Len(payments') :
            IF i > Len(payments)
            THEN payments'[i].status = "pending"
            ELSE /\ payments'[i] = [payments[i] EXCEPT
                                       !.status = payments'[i].status]
                 /\ payments'[i].status # payments[i].status =>
                        /\ payments[i].status = "pending"
                        /\ payments'[i].status =
                               IF appr' # appr THEN "approved"
                               ELSE "rejected"
       ]_vars

\* C28 witness: a user's payment was rejected, a later one of the same
\* user was approved, both commands having run to the end, and the first
\* is still rejected.
C28_Witness ==
    /\ Len(payments) = 2
    /\ payments[1].user_id = payments[2].user_id
    /\ payments[1].status = "rejected"
    /\ payments[2].status = "approved"
    /\ NoApprovalRunning

====
